---- MODULE Spec2Model ----
(***************************************************************************)
(* Authentication and account-security subsystem of enxero:                *)
(*   AuthService      (register, login, refreshToken, logout)              *)
(*   SecurityService  (failed-attempt tracker, lockout, session store)     *)
(*   UserService      (changePassword, updateAccountStatus,                *)
(*                     toggleUserActiveStatus)                             *)
(*                                                                         *)
(* Every handler is an async function; each `await` on the store is one    *)
(* atomic step of a worker, and the synchronous code that follows it up to *)
(* the next store call belongs to the same step.  The store (users,        *)
(* companies, sessions, failedAttempts, activities) is the only shared     *)
(* state.  The request fields ipAddress / userAgent / firstName / lastName *)
(* are copied into rows and never read back; they are left out.            *)
(***************************************************************************)
EXTENDS Integers, Sequences, FiniteSets, TLC

VARIABLES users, companies, roles, sessions, failedAttempts, activities,
          now, ticks, proc,
          issued,   \* history: every refresh token generateTokens has signed
          rotated,  \* history: the tokens a successful refresh has presented
          pwUsed    \* history: per account, the plain passwords it has had,
                    \* newest first (the one set at registration included),
                    \* the latest six

vars == <<users, companies, roles, sessions, failedAttempts, activities,
          now, ticks, proc, issued, rotated, pwUsed>>

hist == <<issued, rotated, pwUsed>>

store == <<users, companies, roles, sessions, failedAttempts, activities>>

-----------------------------------------------------------------------------
(* Program constants *)

MAX_FAILED_ATTEMPTS == 5
LOCKOUT_DURATION == 15 * 60 * 1000
\* variant: sessions that last an hour
SESSION_EXPIRY_HOUR == 60 * 60 * 1000

SESSION_EXPIRY == 24 * 60 * 60 * 1000

\* cleanupOldRecords: now.getTime() - 24 * 60 * 60 * 1000
ATTEMPT_RETENTION == 24 * 60 * 60 * 1000
HISTORY_KEPT == 4
\* env.JWT_REFRESH_EXPIRES_IN: the configuration module is not part of the
\* sources; the specification's example value (7d) is used.
JWT_REFRESH_EXPIRES_IN == 7 * 24 * 60 * 60 * 1000

-----------------------------------------------------------------------------
(* Bounds *)

MaxTicks == 1
MaxAttempts == 6
MaxSessions == 2
MaxTokens == 3
MaxActivities == 4
MaxRows == 2
MaxCompanies == 2

\* null / undefined, one per type of value
Null == "null"
NoUser == 0
NoTime == -1
NoHash == <<>>
NoToken == [userId |-> NoUser, type |-> Null, jti |-> <<>>, exp |-> NoTime,
            secret |-> Null]

Workers == {"w1", "w2"}
OneWorker == {"w1"}

-----------------------------------------------------------------------------
(* bcryptjs: hash is salted, compare recovers the plain text's match. *)

Hash(plain, salt) == <<plain, salt>>

Compare(plain, hashed) == Len(hashed) = 2 /\ hashed[1] = plain

-----------------------------------------------------------------------------
(* jsonwebtoken: sign / verify *)

RefreshToken(uid, rnd) ==
  [userId |-> uid, type |-> "refresh", jti |-> <<now, rnd>>,
   exp |-> now + JWT_REFRESH_EXPIRES_IN, secret |-> "JWT_REFRESH_SECRET"]

AccessToken(uid) ==
  [userId |-> uid, type |-> "access", jti |-> <<>>,
   exp |-> now, secret |-> "JWT_SECRET"]

\* variant: a verify that does not look at `exp`
VerifyRefreshIgnoringExpiry(tok) == tok.secret = "JWT_REFRESH_SECRET"

VerifyRefresh(tok) == tok.secret = "JWT_REFRESH_SECRET" /\ now < tok.exp

\* Math.random().toString(36).substr(2, 9): a draw that has not come up yet
\* in this millisecond for this account (the smallest such, by symmetry).
Unused(uid) == {n \in 1..(Cardinality(issued) + 1) : RefreshToken(uid, n) \notin issued}

FreshNonce(uid) == {n \in Unused(uid) : \A m \in Unused(uid) : n <= m}

-----------------------------------------------------------------------------
(* Responses: the AppError thrown (named after the error taxonomy) with   *)
(* its statusCode, or the success payload.                                *)

Err(kind, status) ==
  [kind |-> kind, status |-> status, refreshToken |-> NoToken]

Ok(status, tok) == [kind |-> "Success", status |-> status, refreshToken |-> tok]

NoRes == [kind |-> Null, status |-> 0, refreshToken |-> NoToken]

-----------------------------------------------------------------------------
(* Workers *)

IdleProc ==
  [pc |-> "idle", op |-> Null, email |-> Null, username |-> Null,
   password |-> Null, newPassword |-> Null, token |-> NoToken,
   uid |-> NoUser, tuid |-> NoUser, hash |-> NoHash, history |-> <<>>,
   company |-> NoUser, newTok |-> NoToken, at |-> NoTime,
   lockStart |-> NoTime, checkedAt |-> NoTime, before |-> <<>>,
   status |-> Null, reason |-> Null, newIsActive |-> FALSE,
   seenAt |-> NoTime, seenReason |-> Null, rows |-> {},
   res |-> NoRes]

\* The handler returns or throws: only the request and its response stay
\* observable, with what isAccountLocked read (the lock's start, if the row
\* was LOCKED) and when, and the store as the request found it (`before`).
Finished(p, r) ==
  [IdleProc EXCEPT !.op = p.op, !.email = p.email, !.username = p.username,
                   !.password = p.password, !.newPassword = p.newPassword,
                   !.token = p.token, !.uid = p.uid,
                   !.lockStart = p.lockStart, !.checkedAt = p.checkedAt,
                   !.before = p.before, !.rows = p.rows,
                   !.status = p.status, !.res = r]

Finish(w, r) == proc' = [proc EXCEPT ![w] = Finished(proc[w], r)]

\* Arguments of the next store call are evaluated when the call is issued,
\* that is at the end of the current step: `at` keeps that reading of the clock.
Goto(w, label) == proc' = [proc EXCEPT ![w].pc = label, ![w].at = now]

UserIds == 1..Len(users)

\* What a request finds when it arrives.
Before(uid, tok) ==
  [users |-> Len(users), companies |-> Len(companies), sessions |-> sessions,
   activities |-> Len(activities), attempts |-> Len(failedAttempts),
   issued |-> issued,
   rotated |-> tok \in rotated,
   history |-> IF uid \in UserIds THEN users[uid].passwordHistory ELSE <<>>,
   pwUsed |-> IF uid \in UserIds THEN pwUsed[uid] ELSE <<>>,
   hash |-> IF uid \in UserIds THEN users[uid].password ELSE NoHash,
   changed |-> IF uid \in UserIds THEN users[uid].lastPasswordChange ELSE NoTime,
   at |-> now]

FindByEmail(email) ==
  IF \E i \in UserIds : users[i].email = email
  THEN CHOOSE i \in UserIds : users[i].email = email
  ELSE NoUser

-----------------------------------------------------------------------------
Init ==
  /\ users = <<>>
  /\ companies = <<>>
  /\ roles = {"USER"}
  /\ sessions = {}
  /\ failedAttempts = <<>>
  /\ activities = <<>>
  /\ now = 0
  /\ ticks = 0
  /\ proc = [w \in Workers |-> IdleProc]
  /\ issued = {}
  /\ rotated = {}
  /\ pwUsed = <<>>

\* The clock: Date.now() / new Date() / the store's now() all read `now`.
Advance(d) ==
  /\ ticks < MaxTicks
  /\ now' = now + d
  /\ ticks' = ticks + 1
  /\ UNCHANGED <<store, proc, hist>>

-----------------------------------------------------------------------------
(* SecurityService.createSession + trackActivity: the common tail of        *)
(* register, login and refreshToken.                                        *)

ActivityOf(op) ==
  CASE op = "register" -> "USER_REGISTERED"
    [] op = "login" -> "USER_LOGGED_IN"
    [] OTHER -> "TOKEN_REFRESHED"

SuccessStatus(op) == IF op = "register" THEN 201 ELSE 200

\* A throw inside refreshToken's try block is rethrown as 'Invalid refresh
\* token' (401); elsewhere a store error reaches the controller without a
\* statusCode and is answered 500.
StoreError(op) ==
  IF op = "refresh" THEN Err("InvalidToken", 401) ELSE Err("StoreError", 500)

SessionRow(uid, tok, expiresAt) ==
  [userId |-> uid, token |-> tok, expiresAt |-> expiresAt, createdAt |-> now]

\* variant: a createSession that deletes nothing first
WithoutTokenKept(tok) == sessions

\* the rows deleteMany({ where: { token } }) leaves
WithoutToken(tok) == {s \in sessions : s.token # tok}

\* prisma.userSession.deleteMany({ where: { token } })
CreateSessionDelete(w) ==
  /\ proc[w].pc = "s_delete"
  /\ sessions' = WithoutToken(proc[w].newTok)
  /\ Goto(w, "s_create")
  /\ UNCHANGED <<users, companies, roles, failedAttempts, activities, now, ticks, hist>>

\* prisma.userSession.create: token is a unique column.
CreateSessionInsert(w) ==
  /\ proc[w].pc = "s_create"
  /\ IF \E s \in sessions : s.token = proc[w].newTok
     THEN /\ Finish(w, StoreError(proc[w].op))
          /\ UNCHANGED sessions
     ELSE /\ sessions' = sessions \cup
                 {SessionRow(proc[w].uid, proc[w].newTok,
                             proc[w].at + SESSION_EXPIRY)}
          /\ Goto(w, "s_activity")
  /\ UNCHANGED <<users, companies, roles, failedAttempts, activities, now, ticks, hist>>

\* SecurityService.trackActivity, then the handler returns.
TrackActivity(w) ==
  /\ proc[w].pc = "s_activity"
  /\ activities' = Append(activities,
                          [userId |-> proc[w].uid,
                           action |-> ActivityOf(proc[w].op)])
  /\ Finish(w, Ok(SuccessStatus(proc[w].op), proc[w].newTok))
  /\ rotated' = IF proc[w].op = "refresh"
                THEN rotated \cup {proc[w].token} ELSE rotated
  /\ UNCHANGED <<users, companies, roles, sessions, failedAttempts, now, ticks,
                 issued, pwUsed>>

-----------------------------------------------------------------------------
(* AuthService.register *)

\* variant: an account created without its company
NewUserUnbound(email, username, hashed, companyId) ==
  [email |-> email, username |-> username, password |-> hashed,
   roleId |-> "USER", companyId |-> NoUser,
   accountStatus |-> "ACTIVE", isActive |-> TRUE,
   deactivatedAt |-> NoTime, deactivationReason |-> Null,
   lastLogin |-> NoTime, lastPasswordChange |-> NoTime,
   passwordHistory |-> <<>>]

NewUser(email, username, hashed, companyId) ==
  [email |-> email, username |-> username, password |-> hashed,
   roleId |-> "USER", companyId |-> companyId,
   accountStatus |-> "ACTIVE", isActive |-> TRUE,
   deactivatedAt |-> NoTime, deactivationReason |-> Null,
   lastLogin |-> NoTime, lastPasswordChange |-> NoTime,
   passwordHistory |-> <<>>]

\* variant: a lookup by email alone
ExistingEmail(email, username) ==
  \E i \in UserIds : users[i].email = email

\* findFirst({ where: { OR: [{ email }, { username }] } })
ExistingUser(email, username) ==
  \E i \in UserIds : users[i].email = email \/ users[i].username = username

\* the store's unique columns of user
UniqueViolation(email, username) ==
  \E i \in UserIds : users[i].email = email \/ users[i].username = username

\* findFirst({ OR: [{ email }, { username }] }), then hash(password, 10)
RegisterCheck(w, email, username, password, salt) ==
  /\ proc[w].pc = "idle"
  /\ LET req == [IdleProc EXCEPT !.op = "register", !.email = email,
                                 !.username = username, !.password = password,
                                 !.before = Before(NoUser, NoToken)]
     IN IF ExistingUser(email, username)
        THEN proc' = [proc EXCEPT ![w] = Finished(req, Err("Conflict", 400))]
        ELSE proc' = [proc EXCEPT ![w] =
                        [req EXCEPT !.pc = "r_role",
                                    !.hash = Hash(password, salt)]]
  /\ UNCHANGED <<store, now, ticks, hist>>

\* role.findFirst({ name: 'USER' })
RegisterRole(w) ==
  /\ proc[w].pc = "r_role"
  /\ IF "USER" \in roles
     THEN Goto(w, "r_company")
     ELSE Finish(w, Err("ConfigError", 500))
  /\ UNCHANGED <<store, now, ticks, hist>>

\* company.create
RegisterCompany(w) ==
  /\ proc[w].pc = "r_company"
  /\ companies' = Append(companies, [identifier |-> proc[w].username])
  /\ proc' = [proc EXCEPT ![w].pc = "r_user", ![w].at = now,
                          ![w].company = Len(companies) + 1]
  /\ UNCHANGED <<users, roles, sessions, failedAttempts, activities, now, ticks, hist>>

\* user.create (email and username are unique columns), then generateTokens
RegisterUser(w, rnd) ==
  /\ proc[w].pc = "r_user"
  /\ IF UniqueViolation(proc[w].email, proc[w].username)
     THEN /\ Finish(w, StoreError("register"))
          /\ UNCHANGED <<users, issued, pwUsed>>
     ELSE /\ users' = Append(users, NewUser(proc[w].email, proc[w].username,
                                            proc[w].hash, proc[w].company))
          /\ proc' = [proc EXCEPT ![w].pc = "s_delete", ![w].at = now,
                                  ![w].uid = Len(users) + 1,
                                  ![w].newTok = RefreshToken(Len(users) + 1, rnd)]
          /\ issued' = issued \cup {RefreshToken(Len(users) + 1, rnd)}
          /\ pwUsed' = Append(pwUsed, <<proc[w].password>>)
  /\ UNCHANGED <<companies, roles, sessions, failedAttempts, activities, now,
                 ticks, rotated>>

-----------------------------------------------------------------------------
(* SecurityService.trackFailedLoginAttempt (called by login, which then     *)
(* throws 'Invalid credentials', 401)                                       *)

\* variant: an answer that tells an unknown email from a wrong password
UnknownEmailNotFound == Err("NotFound", 404)

\* login: no account for the email -> AppError('Invalid credentials', 401)
UnknownEmailError == Err("InvalidCredential", 401)

\* login: compare fails -> AppError('Invalid credentials', 401)
WrongPasswordError == Err("InvalidCredential", 401)

\* what login throws once trackFailedLoginAttempt has returned
LoginFailure(p) ==
  IF p.uid = NoUser THEN UnknownEmailError ELSE WrongPasswordError

\* variant: a count over the rows of the account's email
RecentAttemptsByEmail(uid, since) ==
  Cardinality({i \in 1..Len(failedAttempts) :
                 /\ failedAttempts[i].email = users[uid].email
                 /\ failedAttempts[i].createdAt >= since})

\* failedLoginAttempt.count({ userId, createdAt: { gte: since } })
RecentAttempts(uid, since) ==
  Cardinality({i \in 1..Len(failedAttempts) :
                 /\ failedAttempts[i].userId = uid
                 /\ failedAttempts[i].createdAt >= since})

\* user.findUnique({ where: { email } })
TrackFind(w) ==
  /\ proc[w].pc = "t_find"
  /\ proc' = [proc EXCEPT ![w].pc = "t_create", ![w].at = now,
                          ![w].tuid = FindByEmail(proc[w].email)]
  /\ UNCHANGED <<store, now, ticks, hist>>

\* failedLoginAttempt.create({ email, userId: user?.id })
TrackCreate(w) ==
  /\ proc[w].pc = "t_create"
  /\ failedAttempts' = Append(failedAttempts,
                              [email |-> proc[w].email,
                               userId |-> proc[w].tuid, createdAt |-> now])
  /\ IF proc[w].tuid = NoUser
     THEN Finish(w, LoginFailure(proc[w]))
     ELSE Goto(w, "t_count")
  /\ UNCHANGED <<users, companies, roles, sessions, activities, now, ticks, hist>>

\* variant: locks on the attempt after MAX_FAILED_ATTEMPTS
ShouldLockLate(recentAttempts) == recentAttempts > MAX_FAILED_ATTEMPTS

ShouldLock(recentAttempts) == recentAttempts >= MAX_FAILED_ATTEMPTS

\* failedLoginAttempt.count over the trailing LOCKOUT_DURATION
TrackCount(w) ==
  /\ proc[w].pc = "t_count"
  /\ LET recentAttempts ==
           RecentAttempts(proc[w].tuid, proc[w].at - LOCKOUT_DURATION)
     IN IF ShouldLock(recentAttempts)
        THEN Goto(w, "t_lock")
        ELSE Finish(w, LoginFailure(proc[w]))
  /\ UNCHANGED <<store, now, ticks, hist>>

Locked(u, at) ==
  [u EXCEPT !.accountStatus = "LOCKED", !.deactivatedAt = at,
            !.deactivationReason = "Too many failed login attempts"]

\* user.update({ accountStatus: 'LOCKED', deactivatedAt: new Date(), ... })
TrackLock(w) ==
  /\ proc[w].pc = "t_lock"
  /\ users' = [users EXCEPT ![proc[w].tuid] = Locked(@, proc[w].at)]
  /\ Finish(w, LoginFailure(proc[w]))
  /\ UNCHANGED <<companies, roles, sessions, failedAttempts, activities, now, ticks, hist>>

-----------------------------------------------------------------------------
(* AuthService.login with SecurityService.isAccountLocked *)

\* user.findUnique({ where: { email } })
LoginFind(w, email, password) ==
  /\ proc[w].pc = "idle"
  /\ LET uid == FindByEmail(email)
         req == [IdleProc EXCEPT !.op = "login", !.email = email,
                                 !.password = password, !.uid = uid,
                                 !.at = now, !.before = Before(uid, NoToken)]
     IN IF uid = NoUser
        THEN proc' = [proc EXCEPT ![w] = [req EXCEPT !.pc = "t_find"]]
        ELSE proc' = [proc EXCEPT ![w] =
                        [req EXCEPT !.pc = "l_locked",
                                    !.hash = users[uid].password]]
  /\ UNCHANGED <<store, now, ticks, hist>>

\* variant: a lock that ends one millisecond early
LockActiveShort(u) ==
  /\ u.accountStatus = "LOCKED"
  /\ u.deactivatedAt # NoTime
  /\ now < u.deactivatedAt + LOCKOUT_DURATION - 1

\* isAccountLocked's test of the row it read
LockActive(u) ==
  /\ u.accountStatus = "LOCKED"
  /\ u.deactivatedAt # NoTime
  /\ now < u.deactivatedAt + LOCKOUT_DURATION

LockExpired(u) ==
  /\ u.accountStatus = "LOCKED"
  /\ u.deactivatedAt # NoTime
  /\ ~(now < u.deactivatedAt + LOCKOUT_DURATION)

\* compare(password, user.password) on the row login read, and the branch
AfterLockCheck(w) ==
  IF Compare(proc[w].password, proc[w].hash) THEN "l_last" ELSE "t_find"

\* isAccountLocked: user.findUnique({ id }, select accountStatus, deactivatedAt)
LoginCheckLocked(w) ==
  /\ proc[w].pc = "l_locked"
  /\ LET u == users[proc[w].uid]
         seen == [proc[w] EXCEPT
                    !.lockStart = IF u.accountStatus = "LOCKED"
                                  THEN u.deactivatedAt ELSE NoTime,
                    !.checkedAt = now, !.at = now]
     IN IF LockActive(u)
        THEN proc' = [proc EXCEPT ![w] = Finished(seen, Err("AccountLocked", 401))]
        ELSE IF LockExpired(u)
        THEN proc' = [proc EXCEPT ![w] = [seen EXCEPT !.pc = "l_unlock"]]
        ELSE proc' = [proc EXCEPT ![w] = [seen EXCEPT !.pc = AfterLockCheck(w)]]
  /\ UNCHANGED <<store, now, ticks, hist>>

\* variant: an unlock that leaves the timestamp and the reason
UnlockedStatusOnly(u) == [u EXCEPT !.accountStatus = "ACTIVE"]

Unlocked(u) ==
  [u EXCEPT !.accountStatus = "ACTIVE", !.deactivatedAt = NoTime,
            !.deactivationReason = Null]

\* isAccountLocked: the auto-unlock user.update
LoginUnlock(w) ==
  /\ proc[w].pc = "l_unlock"
  /\ users' = [users EXCEPT ![proc[w].uid] = Unlocked(@)]
  /\ Goto(w, AfterLockCheck(w))
  /\ UNCHANGED <<companies, roles, sessions, failedAttempts, activities, now, ticks, hist>>

\* user.update({ lastLogin: new Date() }), then generateTokens
LoginLast(w, rnd) ==
  /\ proc[w].pc = "l_last"
  /\ users' = [users EXCEPT ![proc[w].uid].lastLogin = proc[w].at]
  /\ proc' = [proc EXCEPT ![w].pc = "s_delete", ![w].at = now,
                          ![w].newTok = RefreshToken(proc[w].uid, rnd)]
  /\ issued' = issued \cup {RefreshToken(proc[w].uid, rnd)}
  /\ UNCHANGED <<companies, roles, sessions, failedAttempts, activities, now,
                 ticks, rotated, pwUsed>>

-----------------------------------------------------------------------------
(* AuthService.refreshToken, AuthService.logout *)

\* variant: a delete that does not mind a missing row
HasSessionOrNot(tok) == TRUE

\* variant: a delete of every session of the token's account
SessionsWithoutAccount(tok) == {s \in sessions : s.userId # tok.userId}

\* variant: a delete that removes nothing
SessionsKept(tok) == sessions

HasSession(tok) == \E s \in sessions : s.token = tok

\* prisma.userSession.delete({ where: { token } })
SessionsWithout(tok) == {s \in sessions : s.token # tok}

\* verify(refreshToken, JWT_REFRESH_SECRET), then user.findUnique({ id })
RefreshVerify(w, tok) ==
  /\ proc[w].pc = "idle"
  /\ LET req == [IdleProc EXCEPT !.op = "refresh", !.token = tok,
                                 !.checkedAt = now, !.at = now,
                                 !.before = Before(tok.userId, tok)]
     IN IF ~VerifyRefresh(tok)
        THEN proc' = [proc EXCEPT ![w] = Finished(req, Err("InvalidToken", 401))]
        ELSE IF tok.userId \notin UserIds
        THEN proc' = [proc EXCEPT ![w] = Finished(req, Err("InvalidToken", 401))]
        ELSE proc' = [proc EXCEPT ![w] =
                        [req EXCEPT !.pc = "f_invalidate", !.uid = tok.userId]]
  /\ UNCHANGED <<store, now, ticks, hist>>

\* invalidateSession(refreshToken): delete throws when no row matches, and
\* the catch block answers 'Invalid refresh token'; then generateTokens
RefreshInvalidate(w, rnd) ==
  /\ proc[w].pc = "f_invalidate"
  /\ IF HasSession(proc[w].token)
     THEN /\ sessions' = SessionsWithout(proc[w].token)
          /\ proc' = [proc EXCEPT ![w].pc = "s_delete", ![w].at = now,
                                  ![w].newTok = RefreshToken(proc[w].uid, rnd)]
          /\ issued' = issued \cup {RefreshToken(proc[w].uid, rnd)}
     ELSE /\ Finish(w, Err("InvalidToken", 401))
          /\ UNCHANGED <<sessions, issued>>
  /\ UNCHANGED <<users, companies, roles, failedAttempts, activities, now,
                 ticks, rotated, pwUsed>>

\* variant: a logout that lets the error of the delete through
LogoutOutcomeSurfaced(found) ==
  IF found THEN Ok(200, NoToken) ELSE Err("NotFound", 404)

\* logout's try / catch: the error of the delete is logged, not rethrown
LogoutOutcome(found) == Ok(200, NoToken)

\* logout: invalidateSession inside try / catch, the error only logged
Logout(w, tok) ==
  /\ proc[w].pc = "idle"
  /\ sessions' = SessionsWithout(tok)
  /\ proc' = [proc EXCEPT ![w] =
                 Finished([IdleProc EXCEPT !.op = "logout", !.token = tok,
                                           !.before = Before(tok.userId, tok)],
                          LogoutOutcome(HasSession(tok)))]
  /\ UNCHANGED <<users, companies, roles, failedAttempts, activities, now,
                 ticks, hist>>

-----------------------------------------------------------------------------
(* UserService.changePassword *)

\* variant: a scan that looks at the newest entry only
InHistoryNewest(plain, passwordHistory) ==
  Len(passwordHistory) > 0 /\ Compare(plain, passwordHistory[1].password)

\* for (const history of passwordHistory) compare(newPassword, history.password)
InHistory(plain, passwordHistory) ==
  \E i \in 1..Len(passwordHistory) : Compare(plain, passwordHistory[i].password)

\* variant: the new entry before the whole of the old list
UpdatedHistoryUncapped(hashed, at, passwordHistory) ==
  <<[password |-> hashed, changedAt |-> at]>> \o passwordHistory

\* [{ password: hashedPassword, changedAt }, ...passwordHistory.slice(0, 4)]
UpdatedHistory(hashed, at, passwordHistory) ==
  <<[password |-> hashed, changedAt |-> at]>>
    \o SubSeq(passwordHistory, 1,
              IF Len(passwordHistory) < HISTORY_KEPT
              THEN Len(passwordHistory) ELSE HISTORY_KEPT)

\* user.findUnique, compare(currentPassword), the scan of the history
ChangePasswordRead(w, uid, currentPassword, newPassword) ==
  /\ proc[w].pc = "idle"
  /\ LET req == [IdleProc EXCEPT !.op = "changePassword", !.uid = uid,
                                 !.password = currentPassword,
                                 !.newPassword = newPassword, !.at = now,
                                 !.before = Before(uid, NoToken)]
     IN IF uid \notin UserIds
        THEN proc' = [proc EXCEPT ![w] = Finished(req, Err("NotFound", 404))]
        ELSE IF ~Compare(currentPassword, users[uid].password)
        THEN proc' = [proc EXCEPT ![w] =
                        Finished(req, Err("InvalidCredential", 400))]
        ELSE IF InHistory(newPassword, users[uid].passwordHistory)
        THEN proc' = [proc EXCEPT ![w] =
                        Finished(req, Err("PasswordReused", 400))]
        ELSE proc' = [proc EXCEPT ![w] =
                        [req EXCEPT !.pc = "p_update",
                                    !.history = users[uid].passwordHistory]]
  /\ UNCHANGED <<store, now, ticks, hist>>

\* hash(newPassword, 10), then user.update({ password, passwordHistory,
\* lastPasswordChange })
ChangePasswordWrite(w, salt) ==
  /\ proc[w].pc = "p_update"
  /\ LET hashed == Hash(proc[w].newPassword, salt)
     IN users' = [users EXCEPT ![proc[w].uid] =
                    [@ EXCEPT !.password = hashed,
                              !.passwordHistory =
                                 UpdatedHistory(hashed, now, proc[w].history),
                              !.lastPasswordChange = now]]
  /\ pwUsed' = [pwUsed EXCEPT ![proc[w].uid] =
                   SubSeq(<<proc[w].newPassword>> \o @, 1,
                          IF Len(@) < 6 THEN Len(@) + 1 ELSE 6)]
  /\ Finish(w, [kind |-> "Success", status |-> 200, refreshToken |-> NoToken])
  /\ UNCHANGED <<companies, roles, sessions, failedAttempts, activities, now,
                 ticks, issued, rotated>>

-----------------------------------------------------------------------------
(* UserService.updateAccountStatus, UserService.toggleUserActiveStatus *)

\* updateData of updateAccountStatus; a reason left out leaves the column
StatusUpdated(u, status, reason, at) ==
  LET base == [u EXCEPT !.accountStatus = status,
                        !.isActive = (status = "active")]
  IN IF status = "deactivated"
     THEN [base EXCEPT !.deactivatedAt = at,
                       !.deactivationReason =
                          IF reason = Null THEN @ ELSE reason]
     ELSE IF status = "active"
     THEN [base EXCEPT !.deactivatedAt = NoTime, !.deactivationReason = Null]
     ELSE base

\* updateAccountStatus: user.findUnique, then updateData is built
UpdateStatusRead(w, uid, status, reason) ==
  /\ proc[w].pc = "idle"
  /\ LET req == [IdleProc EXCEPT !.op = "updateAccountStatus", !.uid = uid,
                                 !.status = status, !.reason = reason,
                                 !.at = now]
     IN IF uid \notin UserIds
        THEN proc' = [proc EXCEPT ![w] = Finished(req, Err("NotFound", 404))]
        ELSE proc' = [proc EXCEPT ![w] = [req EXCEPT !.pc = "a_update"]]
  /\ UNCHANGED <<store, now, ticks, hist>>

\* updateAccountStatus: user.update({ where: { id }, data: updateData })
UpdateStatusWrite(w) ==
  /\ proc[w].pc = "a_update"
  /\ users' = [users EXCEPT ![proc[w].uid] =
                  StatusUpdated(@, proc[w].status, proc[w].reason, proc[w].at)]
  /\ Finish(w, Ok(200, NoToken))
  /\ UNCHANGED <<companies, roles, sessions, failedAttempts, activities, now,
                 ticks, hist>>

\* variant: a toggle that writes the flag and the lock columns only
ToggledFlagOnly(u, newIsActive, seenAt, seenReason) ==
  [u EXCEPT !.isActive = newIsActive,
            !.deactivatedAt = IF newIsActive THEN NoTime ELSE seenAt,
            !.deactivationReason = IF newIsActive THEN Null ELSE seenReason]

\* data of toggleUserActiveStatus's update, from the row it read
Toggled(u, newIsActive, seenAt, seenReason) ==
  [u EXCEPT !.isActive = newIsActive,
            !.accountStatus = IF newIsActive THEN "active" ELSE "deactivated",
            !.deactivatedAt = IF newIsActive THEN NoTime ELSE seenAt,
            !.deactivationReason = IF newIsActive THEN Null ELSE seenReason]

\* toggleUserActiveStatus: user.findUnique and the 'already' early return
ToggleRead(w, uid, newIsActive) ==
  /\ proc[w].pc = "idle"
  /\ LET req == [IdleProc EXCEPT !.op = "toggleUserActiveStatus", !.uid = uid,
                                 !.newIsActive = newIsActive, !.at = now]
     IN IF uid \notin UserIds
        THEN proc' = [proc EXCEPT ![w] = Finished(req, Err("NotFound", 404))]
        ELSE IF users[uid].isActive = newIsActive
        THEN proc' = [proc EXCEPT ![w] = Finished(req, Ok(200, NoToken))]
        ELSE proc' = [proc EXCEPT ![w] =
                        [req EXCEPT !.pc = "g_update",
                                    !.seenAt = users[uid].deactivatedAt,
                                    !.seenReason = users[uid].deactivationReason]]
  /\ UNCHANGED <<store, now, ticks, hist>>

\* toggleUserActiveStatus: user.update
ToggleWrite(w) ==
  /\ proc[w].pc = "g_update"
  /\ users' = [users EXCEPT ![proc[w].uid] =
                  Toggled(@, proc[w].newIsActive, proc[w].seenAt,
                          proc[w].seenReason)]
  /\ Finish(w, Ok(200, NoToken))
  /\ UNCHANGED <<companies, roles, sessions, failedAttempts, activities, now,
                 ticks, hist>>

-----------------------------------------------------------------------------
(* SecurityService.getUserSessions, SecurityService.cleanupOldRecords *)

\* userSession.findMany({ where: { userId, expiresAt: { gt: new Date() } } })
ActiveSessions(uid, at) ==
  {s \in sessions : s.userId = uid /\ s.expiresAt > at}

GetUserSessions(w, uid) ==
  /\ proc[w].pc = "idle"
  /\ proc' = [proc EXCEPT ![w] =
                 Finished([IdleProc EXCEPT !.op = "getUserSessions",
                                           !.uid = uid, !.at = now,
                                           !.before = Before(uid, NoToken),
                                           !.rows = ActiveSessions(uid, now)],
                          Ok(200, NoToken))]
  /\ UNCHANGED <<store, now, ticks, hist>>

\* userSession.deleteMany({ where: { expiresAt: { lt: now } } })
ExpiredSessions(at) == {s \in sessions : s.expiresAt < at}

\* variant: a sweep of every failed attempt older than now
OldAttemptAny(a, at) == a.createdAt < at

\* failedLoginAttempt.deleteMany({ createdAt: { lt: now - 24h } })
OldAttempt(a, at) == a.createdAt < at - ATTEMPT_RETENTION

\* cleanupOldRecords: const now = new Date(), then the sessions
SweepSessions(w) ==
  /\ proc[w].pc = "idle"
  /\ sessions' = sessions \ ExpiredSessions(now)
  /\ proc' = [proc EXCEPT ![w] =
                 [IdleProc EXCEPT !.op = "cleanupOldRecords",
                                  !.pc = "c_attempts", !.at = now,
                                  !.before = Before(NoUser, NoToken)]]
  /\ UNCHANGED <<users, companies, roles, failedAttempts, activities, now,
                 ticks, hist>>

\* cleanupOldRecords: the failed attempts, against the same `now`
SweepAttempts(w) ==
  /\ proc[w].pc = "c_attempts"
  /\ LET Kept(a) == ~OldAttempt(a, proc[w].at)
     IN failedAttempts' = SelectSeq(failedAttempts, Kept)
  /\ Finish(w, Ok(200, NoToken))
  /\ UNCHANGED <<users, companies, roles, sessions, activities, now, ticks,
                 hist>>

-----------------------------------------------------------------------------
(* Lockout: one account, right and wrong passwords, a clock that can sit   *)
(* just before, on and after the end of the lockout window.                *)

LockoutSteps == {LOCKOUT_DURATION - 1, LOCKOUT_DURATION, LOCKOUT_DURATION + 1}

Room ==
  /\ Len(failedAttempts) < MaxAttempts
  /\ Cardinality(sessions) < MaxSessions

NextLockout(W) ==
  \/ \E w \in W : RegisterCheck(w, "e1", "u1", "good", "s1")
  \/ \E w \in W : RegisterRole(w)
  \/ \E w \in W : RegisterCompany(w)
  \/ \E w \in W : \E rnd \in FreshNonce(Len(users) + 1) : RegisterUser(w, rnd)
  \/ \E w \in W : CreateSessionDelete(w)
  \/ \E w \in W : CreateSessionInsert(w)
  \/ \E w \in W : TrackActivity(w)
  \/ \E w \in W, password \in {"good", "bad"} :
        Room /\ LoginFind(w, "e1", password)
  \/ \E w \in W : LoginCheckLocked(w)
  \/ \E w \in W : LoginUnlock(w)
  \/ \E w \in W : \E rnd \in FreshNonce(proc[w].uid) : LoginLast(w, rnd)
  \/ \E w \in W : TrackFind(w)
  \/ \E w \in W : TrackCreate(w)
  \/ \E w \in W : TrackCount(w)
  \/ \E w \in W : TrackLock(w)
  \/ \E d \in LockoutSteps : Advance(d)

NextLockoutSeq == NextLockout(OneWorker)

\* One request at a time.
SpecLockout == Init /\ [][NextLockoutSeq]_vars

\* Two login requests for the account in flight at once, wrong passwords.
NextLockoutRace ==
  \/ \E w \in OneWorker : RegisterCheck(w, "e1", "u1", "good", "s1")
  \/ \E w \in OneWorker : RegisterRole(w)
  \/ \E w \in OneWorker : RegisterCompany(w)
  \/ \E w \in OneWorker :
        \E rnd \in FreshNonce(Len(users) + 1) : RegisterUser(w, rnd)
  \/ \E w \in OneWorker : CreateSessionDelete(w)
  \/ \E w \in OneWorker : CreateSessionInsert(w)
  \/ \E w \in OneWorker : TrackActivity(w)
  \/ \E w \in Workers : Room /\ LoginFind(w, "e1", "bad")
  \/ \E w \in Workers : LoginCheckLocked(w)
  \/ \E w \in Workers : LoginUnlock(w)
  \/ \E w \in Workers : TrackFind(w)
  \/ \E w \in Workers : TrackCreate(w)
  \/ \E w \in Workers : TrackCount(w)
  \/ \E w \in Workers : TrackLock(w)
  \/ Advance(LOCKOUT_DURATION)

SpecLockoutRace == Init /\ [][NextLockoutRace]_vars

-----------------------------------------------------------------------------
(* Registration: two emails, two usernames, one request at a time. *)

NextRegister ==
  \/ \E w \in OneWorker, email \in {"e1", "e2"}, username \in {"u1", "u2"},
        password \in {"good", "bad"} :
        RegisterCheck(w, email, username, password, "s1")
  \/ \E w \in OneWorker : RegisterRole(w)
  \/ \E w \in OneWorker : RegisterCompany(w)
  \/ \E w \in OneWorker :
        \E rnd \in FreshNonce(Len(users) + 1) : RegisterUser(w, rnd)
  \/ \E w \in OneWorker : CreateSessionDelete(w)
  \/ \E w \in OneWorker : CreateSessionInsert(w)
  \/ \E w \in OneWorker : TrackActivity(w)
  \/ Advance(1)

SpecRegister == Init /\ [][NextRegister]_vars

\* Two register requests for one email in flight at once, under the same
\* username or under two.
NextRegisterRace ==
  \/ \E w \in Workers, username \in {"u1", "u2"} :
        Len(companies) < MaxCompanies
          /\ RegisterCheck(w, "e1", username, "good", "s1")
  \/ \E w \in Workers : RegisterRole(w)
  \/ \E w \in Workers : RegisterCompany(w)
  \/ \E w \in Workers :
        \E rnd \in FreshNonce(Len(users) + 1) : RegisterUser(w, rnd)
  \/ \E w \in Workers : CreateSessionDelete(w)
  \/ \E w \in Workers : CreateSessionInsert(w)
  \/ \E w \in Workers : TrackActivity(w)

SpecRegisterRace == Init /\ [][NextRegisterRace]_vars

-----------------------------------------------------------------------------
(* Tokens: one account; register, login, refresh and logout, one request   *)
(* at a time; the tokens presented are those issued, and forgeries.        *)

\* a token whose signature no longer matches its payload
Tampered(tok) == [tok EXCEPT !.secret = "tampered"]

\* an access token: signed with JWT_SECRET
AccessSigned(tok) == [tok EXCEPT !.type = "access", !.secret = "JWT_SECRET"]

\* a token signed with the refresh secret for an account the store lacks
Orphaned(tok) == [tok EXCEPT !.userId = Len(users) + 1]

Presented ==
  issued \cup {Tampered(t) : t \in issued}
         \cup {AccessSigned(t) : t \in issued}
         \cup {Orphaned(t) : t \in issued}

TokenRoom == Cardinality(issued) < MaxTokens

NextToken ==
  \/ \E w \in OneWorker : RegisterCheck(w, "e1", "u1", "good", "s1")
  \/ \E w \in OneWorker : RegisterRole(w)
  \/ \E w \in OneWorker : RegisterCompany(w)
  \/ \E w \in OneWorker :
        \E rnd \in FreshNonce(Len(users) + 1) : RegisterUser(w, rnd)
  \/ \E w \in OneWorker : CreateSessionDelete(w)
  \/ \E w \in OneWorker : CreateSessionInsert(w)
  \/ \E w \in OneWorker : TrackActivity(w)
  \/ \E w \in OneWorker : TokenRoom /\ LoginFind(w, "e1", "good")
  \/ \E w \in OneWorker : LoginCheckLocked(w)
  \/ \E w \in OneWorker :
        \E rnd \in FreshNonce(proc[w].uid) : LoginLast(w, rnd)
  \/ \E w \in OneWorker, tok \in Presented : TokenRoom /\ RefreshVerify(w, tok)
  \/ \E w \in OneWorker :
        \E rnd \in FreshNonce(proc[w].uid) : RefreshInvalidate(w, rnd)
  \/ \E w \in OneWorker, tok \in issued : Logout(w, tok)
  \/ Advance(JWT_REFRESH_EXPIRES_IN)

SpecToken == Init /\ [][NextToken]_vars

\* Two refresh requests in flight at once, presenting tokens that were issued.
NextRefreshRace ==
  \/ \E w \in OneWorker : RegisterCheck(w, "e1", "u1", "good", "s1")
  \/ \E w \in OneWorker : RegisterRole(w)
  \/ \E w \in OneWorker : RegisterCompany(w)
  \/ \E w \in OneWorker :
        \E rnd \in FreshNonce(Len(users) + 1) : RegisterUser(w, rnd)
  \/ \E w \in Workers : CreateSessionDelete(w)
  \/ \E w \in Workers : CreateSessionInsert(w)
  \/ \E w \in Workers : TrackActivity(w)
  \/ \E w \in Workers, tok \in issued : TokenRoom /\ RefreshVerify(w, tok)
  \/ \E w \in Workers :
        \E rnd \in FreshNonce(proc[w].uid) : RefreshInvalidate(w, rnd)

SpecRefreshRace == Init /\ [][NextRefreshRace]_vars

\* Lockout and refresh: one account, logins with right and wrong passwords
\* and refreshes of the tokens issued, one request at a time.
NextLockedRefresh ==
  \/ \E w \in OneWorker : RegisterCheck(w, "e1", "u1", "good", "s1")
  \/ \E w \in OneWorker : RegisterRole(w)
  \/ \E w \in OneWorker : RegisterCompany(w)
  \/ \E w \in OneWorker :
        \E rnd \in FreshNonce(Len(users) + 1) : RegisterUser(w, rnd)
  \/ \E w \in OneWorker : CreateSessionDelete(w)
  \/ \E w \in OneWorker : CreateSessionInsert(w)
  \/ \E w \in OneWorker : TrackActivity(w)
  \/ \E w \in OneWorker, password \in {"good", "bad"} :
        Room /\ TokenRoom /\ LoginFind(w, "e1", password)
  \/ \E w \in OneWorker : LoginCheckLocked(w)
  \/ \E w \in OneWorker : LoginUnlock(w)
  \/ \E w \in OneWorker :
        \E rnd \in FreshNonce(proc[w].uid) : LoginLast(w, rnd)
  \/ \E w \in OneWorker : TrackFind(w)
  \/ \E w \in OneWorker : TrackCreate(w)
  \/ \E w \in OneWorker : TrackCount(w)
  \/ \E w \in OneWorker : TrackLock(w)
  \/ \E w \in OneWorker, tok \in issued : TokenRoom /\ RefreshVerify(w, tok)
  \/ \E w \in OneWorker :
        \E rnd \in FreshNonce(proc[w].uid) : RefreshInvalidate(w, rnd)
  \/ Advance(LOCKOUT_DURATION)

SpecLockedRefresh == Init /\ [][NextLockedRefresh]_vars

-----------------------------------------------------------------------------
(* Passwords: one account that changes its password among six, one request *)
(* at a time, the clock standing still.                                    *)

Passwords == {"p0", "p1", "p2", "p3", "p4", "p5"}

\* the account's password, and a wrong one
CurrentGuesses(uid) ==
  {"bad"} \cup (IF uid \in UserIds THEN {pwUsed[uid][1]} ELSE {})

NextPassword ==
  \/ \E w \in OneWorker : RegisterCheck(w, "e1", "u1", "p0", "s1")
  \/ \E w \in OneWorker : RegisterRole(w)
  \/ \E w \in OneWorker : RegisterCompany(w)
  \/ \E w \in OneWorker :
        \E rnd \in FreshNonce(Len(users) + 1) : RegisterUser(w, rnd)
  \/ \E w \in OneWorker : CreateSessionDelete(w)
  \/ \E w \in OneWorker : CreateSessionInsert(w)
  \/ \E w \in OneWorker : TrackActivity(w)
  \/ \E w \in OneWorker, uid \in 1..(Len(users) + 1) :
        \E currentPassword \in CurrentGuesses(uid), newPassword \in Passwords :
          ChangePasswordRead(w, uid, currentPassword, newPassword)
  \/ \E w \in OneWorker : ChangePasswordWrite(w, "s1")

SpecPassword == Init /\ [][NextPassword]_vars

-----------------------------------------------------------------------------
(* Account status: logins with a wrong password for one account, and an    *)
(* administrator who sets its status or toggles it, in flight at once.     *)

Logins == {"w1"}

\* no request is in flight
Quiet == \A w \in Workers : proc[w].pc = "idle"

Admins == {"w2"}

Statuses == {"active", "suspended", "deactivated"}

Reasons == {"policy"}

\* the id the administrator names: unknown until e1 is registered
Accounts == {1}

NextStatus ==
  \/ \E w \in Logins : RegisterCheck(w, "e1", "u1", "good", "s1")
  \/ \E w \in Logins : RegisterRole(w)
  \/ \E w \in Logins : RegisterCompany(w)
  \/ \E w \in Logins :
        \E rnd \in FreshNonce(Len(users) + 1) : RegisterUser(w, rnd)
  \/ \E w \in Logins : CreateSessionDelete(w)
  \/ \E w \in Logins : CreateSessionInsert(w)
  \/ \E w \in Logins : TrackActivity(w)
  \/ \E w \in Logins : Room /\ LoginFind(w, "e1", "bad")
  \/ \E w \in Logins : LoginCheckLocked(w)
  \/ \E w \in Logins : LoginUnlock(w)
  \/ \E w \in Logins : TrackFind(w)
  \/ \E w \in Logins : TrackCreate(w)
  \/ \E w \in Logins : TrackCount(w)
  \/ \E w \in Logins : TrackLock(w)
  \/ \E w \in Admins, uid \in Accounts, status \in Statuses,
        reason \in Reasons : UpdateStatusRead(w, uid, status, reason)
  \/ \E w \in Admins : UpdateStatusWrite(w)
  \/ \E w \in Admins, uid \in Accounts, newIsActive \in BOOLEAN :
        ToggleRead(w, uid, newIsActive)
  \/ \E w \in Admins : ToggleWrite(w)
  \/ Advance(LOCKOUT_DURATION)

SpecStatus == Init /\ [][NextStatus]_vars

\* Logins with the right password for one account whose status an
\* administrator sets, one request at a time.
NextDisabled ==
  \/ \E w \in Logins : Quiet /\ RegisterCheck(w, "e1", "u1", "good", "s1")
  \/ \E w \in Logins : RegisterRole(w)
  \/ \E w \in Logins : RegisterCompany(w)
  \/ \E w \in Logins :
        \E rnd \in FreshNonce(Len(users) + 1) : RegisterUser(w, rnd)
  \/ \E w \in Logins : CreateSessionDelete(w)
  \/ \E w \in Logins : CreateSessionInsert(w)
  \/ \E w \in Logins : TrackActivity(w)
  \/ \E w \in Logins : Quiet /\ TokenRoom /\ LoginFind(w, "e1", "good")
  \/ \E w \in Logins : LoginCheckLocked(w)
  \/ \E w \in Logins :
        \E rnd \in FreshNonce(proc[w].uid) : LoginLast(w, rnd)
  \/ \E w \in Admins, uid \in Accounts, status \in Statuses,
        reason \in Reasons : Quiet /\ UpdateStatusRead(w, uid, status, reason)
  \/ \E w \in Admins : UpdateStatusWrite(w)
  \/ \E w \in Admins, uid \in Accounts, newIsActive \in BOOLEAN :
        Quiet /\ ToggleRead(w, uid, newIsActive)
  \/ \E w \in Admins : ToggleWrite(w)

SpecDisabled == Init /\ [][NextDisabled]_vars

-----------------------------------------------------------------------------
(* Enumeration: logins with a wrong password for the account of e1, and a  *)
(* stranger's logins for e2, which has no account; one request at a time,  *)
(* each of the two keeping the last answer it got.                         *)

Strangers == {"w2"}

NextEnumerate ==
  \/ \E w \in Logins : Quiet /\ RegisterCheck(w, "e1", "u1", "good", "s1")
  \/ \E w \in Logins : RegisterRole(w)
  \/ \E w \in Logins : RegisterCompany(w)
  \/ \E w \in Logins :
        \E rnd \in FreshNonce(Len(users) + 1) : RegisterUser(w, rnd)
  \/ \E w \in Logins : CreateSessionDelete(w)
  \/ \E w \in Logins : CreateSessionInsert(w)
  \/ \E w \in Logins : TrackActivity(w)
  \/ \E w \in Logins : Quiet /\ Room /\ LoginFind(w, "e1", "bad")
  \/ \E w \in Strangers : Quiet /\ Room /\ LoginFind(w, "e2", "bad")
  \/ \E w \in Logins : LoginCheckLocked(w)
  \/ \E w \in Logins : LoginUnlock(w)
  \/ \E w \in Workers : TrackFind(w)
  \/ \E w \in Workers : TrackCreate(w)
  \/ \E w \in Logins : TrackCount(w)
  \/ \E w \in Logins : TrackLock(w)
  \/ Advance(LOCKOUT_DURATION)

SpecEnumerate == Init /\ [][NextEnumerate]_vars

\* Probing: the same run of wrong passwords is sent for e1, which has an
\* account, and for e2, which has none, attempt by attempt: the stranger's
\* n-th attempt follows the n-th attempt on the account.

\* the failed-attempt rows recorded for an email
RowsFor(email) ==
  Cardinality({i \in 1..Len(failedAttempts) : failedAttempts[i].email = email})

\* the attempts made on the account so far: one row each, but for the one
\* just answered if the lock check turned it away
Sent(w) ==
  RowsFor("e1")
    + (IF /\ proc[w].op = "login"
          /\ proc[w].pc = "idle"
          /\ proc[w].res.kind = "AccountLocked"
       THEN 1 ELSE 0)

NextProbe ==
  \/ \E w \in Logins : Quiet /\ RegisterCheck(w, "e1", "u1", "good", "s1")
  \/ \E w \in Logins : RegisterRole(w)
  \/ \E w \in Logins : RegisterCompany(w)
  \/ \E w \in Logins :
        \E rnd \in FreshNonce(Len(users) + 1) : RegisterUser(w, rnd)
  \/ \E w \in Logins : CreateSessionDelete(w)
  \/ \E w \in Logins : CreateSessionInsert(w)
  \/ \E w \in Logins : TrackActivity(w)
  \/ \E w \in Logins :
        /\ Quiet
        /\ users # <<>>
        /\ RowsFor("e1") < MaxAttempts
        /\ RowsFor("e2") >= Sent(w)
        /\ LoginFind(w, "e1", "bad")
  \/ \E w \in Strangers, v \in Logins :
        /\ Quiet
        /\ RowsFor("e2") < Sent(v)
        /\ LoginFind(w, "e2", "bad")
  \/ \E w \in Logins : LoginCheckLocked(w)
  \/ \E w \in Logins : LoginUnlock(w)
  \/ \E w \in Workers : TrackFind(w)
  \/ \E w \in Workers : TrackCreate(w)
  \/ \E w \in Logins : TrackCount(w)
  \/ \E w \in Logins : TrackLock(w)
  \/ \E d \in LockoutSteps : Advance(d)

SpecProbe == Init /\ [][NextProbe]_vars

-----------------------------------------------------------------------------
(* Sweep: one account; register, login, refresh, the listing of sessions   *)
(* and the sweep, one request at a time; a clock that can sit on and just  *)
(* after the expiry of a session.                                          *)

SweepSteps == {SESSION_EXPIRY, SESSION_EXPIRY + 1}

\* few rows of each kind: the lockout threshold is out of reach here
SweepRoom(password) ==
  IF password = "good" /\ users # <<>>
  THEN Cardinality(issued) < MaxRows
  ELSE Len(failedAttempts) < MaxRows

NextSweep ==
  \/ \E w \in OneWorker : RegisterCheck(w, "e1", "u1", "good", "s1")
  \/ \E w \in OneWorker : RegisterRole(w)
  \/ \E w \in OneWorker : RegisterCompany(w)
  \/ \E w \in OneWorker :
        \E rnd \in FreshNonce(Len(users) + 1) : RegisterUser(w, rnd)
  \/ \E w \in OneWorker : CreateSessionDelete(w)
  \/ \E w \in OneWorker : CreateSessionInsert(w)
  \/ \E w \in OneWorker : TrackActivity(w)
  \/ \E w \in OneWorker, password \in {"good", "bad"} :
        SweepRoom(password) /\ LoginFind(w, "e1", password)
  \/ \E w \in OneWorker : LoginCheckLocked(w)
  \/ \E w \in OneWorker :
        \E rnd \in FreshNonce(proc[w].uid) : LoginLast(w, rnd)
  \/ \E w \in OneWorker : TrackFind(w)
  \/ \E w \in OneWorker : TrackCreate(w)
  \/ \E w \in OneWorker : TrackCount(w)
  \/ \E w \in OneWorker, tok \in issued :
        Cardinality(issued) < MaxRows /\ RefreshVerify(w, tok)
  \/ \E w \in OneWorker :
        \E rnd \in FreshNonce(proc[w].uid) : RefreshInvalidate(w, rnd)
  \/ \E w \in OneWorker, uid \in UserIds : GetUserSessions(w, uid)
  \/ \E w \in OneWorker : SweepSessions(w)
  \/ \E w \in OneWorker : SweepAttempts(w)
  \/ \E d \in SweepSteps : Advance(d)

SpecSweep == Init /\ [][NextSweep]_vars

-----------------------------------------------------------------------------
(* Colliding nonces: one account; register, login and refresh, one request *)
(* at a time; Math.random() may return what it returned before.            *)

Nonces == {1, 2}

ActivityRoom == Len(activities) < MaxActivities

NextCollide ==
  \/ \E w \in OneWorker : RegisterCheck(w, "e1", "u1", "good", "s1")
  \/ \E w \in OneWorker : RegisterRole(w)
  \/ \E w \in OneWorker : RegisterCompany(w)
  \/ \E w \in OneWorker, rnd \in Nonces : RegisterUser(w, rnd)
  \/ \E w \in OneWorker : CreateSessionDelete(w)
  \/ \E w \in OneWorker : CreateSessionInsert(w)
  \/ \E w \in OneWorker : TrackActivity(w)
  \/ \E w \in OneWorker : ActivityRoom /\ LoginFind(w, "e1", "good")
  \/ \E w \in OneWorker : LoginCheckLocked(w)
  \/ \E w \in OneWorker, rnd \in Nonces : LoginLast(w, rnd)
  \/ \E w \in OneWorker, tok \in issued : ActivityRoom /\ RefreshVerify(w, tok)
  \/ \E w \in OneWorker, rnd \in Nonces : RefreshInvalidate(w, rnd)
  \/ Advance(1)

SpecCollide == Init /\ [][NextCollide]_vars

-----------------------------------------------------------------------------
(* Observations the claims are stated on *)

\* A worker whose last request was a login that has been answered.
LoginDone(w) ==
  /\ proc[w].pc = "idle"
  /\ proc[w].op = "login"

\* The failed attempts of an account that lie in the window trailing its
\* latest one, `window` wide.
TrailingAttempts(uid, window) ==
  LET mine == {i \in 1..Len(failedAttempts) : failedAttempts[i].userId = uid}
  IN Cardinality({i \in mine : \A j \in mine :
                    failedAttempts[i].createdAt >= failedAttempts[j].createdAt - window})

\* The password sent is the account's.
RightPassword(w) ==
  /\ proc[w].uid # NoUser
  /\ Compare(proc[w].password, users[proc[w].uid].password)

-----------------------------------------------------------------------------
(* C1: once 5 failed logins of an account lie inside one trailing 15-minute *)
(* window the account is locked, and a login whose lock check happens       *)
(* before lock-start + 15 minutes is answered AccountLocked, whatever the   *)
(* password.                                                                *)
C1_LockoutAfterFiveFailures ==
  \A w \in Workers :
    (LoginDone(w) /\ proc[w].uid # NoUser) =>
      /\ (proc[w].res.kind = "InvalidCredential"
            /\ TrailingAttempts(proc[w].uid, 15 * 60 * 1000) >= 5)
         => /\ users[proc[w].uid].accountStatus = "LOCKED"
            /\ users[proc[w].uid].deactivatedAt # NoTime
      /\ (proc[w].lockStart # NoTime
            /\ proc[w].checkedAt < proc[w].lockStart + 15 * 60 * 1000)
         => proc[w].res = Err("AccountLocked", 401)

\* a login with the right password was turned away one millisecond before
\* the lock ran out
C1_Witness ==
  \E w \in Workers :
    /\ LoginDone(w)
    /\ RightPassword(w)
    /\ proc[w].lockStart # NoTime
    /\ proc[w].checkedAt = proc[w].lockStart + 15 * 60 * 1000 - 1
    /\ proc[w].res.kind = "AccountLocked"
    /\ TrailingAttempts(proc[w].uid, 15 * 60 * 1000) >= 5

(* C2: a login with the right password whose lock check happens at or after *)
(* lock-start + 15 minutes succeeds and leaves the account active with the  *)
(* lock-start and the lock reason cleared.                                  *)
C2_LoginAfterWindowUnlocks ==
  \A w \in Workers :
    (/\ LoginDone(w)
     /\ RightPassword(w)
     /\ proc[w].lockStart # NoTime
     /\ proc[w].checkedAt >= proc[w].lockStart + 15 * 60 * 1000)
    => /\ proc[w].res.kind = "Success"
       /\ users[proc[w].uid].accountStatus = "ACTIVE"
       /\ users[proc[w].uid].deactivatedAt = NoTime
       /\ users[proc[w].uid].deactivationReason = Null

\* the login came exactly at lock-start + 15 minutes
C2_Witness ==
  \E w \in Workers :
    /\ LoginDone(w)
    /\ RightPassword(w)
    /\ proc[w].lockStart # NoTime
    /\ proc[w].checkedAt = proc[w].lockStart + 15 * 60 * 1000
    /\ proc[w].res.kind = "Success"
    /\ users[proc[w].uid].accountStatus = "ACTIVE"

(* C3: the auto-unlock write of isAccountLocked never clears a lock whose   *)
(* lock-start is less than 15 minutes old.                                  *)
C3_UnlockIsAtomic ==
  [][\A w \in Workers :
       (proc[w].pc = "l_unlock" /\ proc'[w].pc # "l_unlock")
       => ~(/\ users[proc[w].uid].accountStatus = "LOCKED"
            /\ users[proc[w].uid].deactivatedAt # NoTime
            /\ now < users[proc[w].uid].deactivatedAt + 15 * 60 * 1000)]_vars

-----------------------------------------------------------------------------
RegisterDone(w) ==
  /\ proc[w].pc = "idle"
  /\ proc[w].op = "register"

\* an account that existed when the request arrived has its email or username
TakenBefore(w) ==
  \E i \in 1..proc[w].before.users :
    \/ users[i].email = proc[w].email
    \/ users[i].username = proc[w].username

\* the store holds what it held when the request arrived
StoreAsBefore(w) ==
  /\ Len(users) = proc[w].before.users
  /\ Len(companies) = proc[w].before.companies
  /\ sessions = proc[w].before.sessions
  /\ Len(activities) = proc[w].before.activities

(* C4: a register whose email or username is that of an existing account    *)
(* fails with Conflict and creates no company, account, session or         *)
(* activity.                                                               *)
C4_DuplicateRegisterConflict ==
  \A w \in Workers :
    (RegisterDone(w) /\ TakenBefore(w))
    => /\ proc[w].res.kind = "Conflict"
       /\ proc[w].res.refreshToken = NoToken
       /\ StoreAsBefore(w)

\* a new email with a username that is taken
C4_Witness ==
  \E w \in Workers :
    /\ RegisterDone(w)
    /\ TakenBefore(w)
    /\ \A i \in 1..proc[w].before.users : users[i].email # proc[w].email
    /\ proc[w].res.kind = "Conflict"
    /\ Len(users) = 1

-----------------------------------------------------------------------------
ChangeDone(w) ==
  /\ proc[w].pc = "idle"
  /\ proc[w].op = "changePassword"
  /\ proc[w].uid <= proc[w].before.users

\* the latest `n` plain passwords of a log
LastUsed(log, n) == {log[i] : i \in 1..(IF Len(log) < n THEN Len(log) ELSE n)}

(* C5: changePassword (current password right) fails with PasswordReused    *)
(* exactly when the new password is one of the account's last 5 used        *)
(* passwords, the registration password and the current one included; a     *)
(* password last used 6 or more generations ago is accepted.                *)
C5_LastFivePasswordsRejected ==
  \A w \in Workers :
    (ChangeDone(w) /\ proc[w].password = proc[w].before.pwUsed[1])
    => IF proc[w].newPassword \in LastUsed(proc[w].before.pwUsed, 5)
       THEN proc[w].res.kind = "PasswordReused"
       ELSE proc[w].res.kind = "Success"

(* C6: a password history holds at most 5 entries, newest first; a          *)
(* successful change puts the new hash at the head and drops only the       *)
(* oldest entry, and only when the list was full.                           *)
C6_HistoryCappedNewestFirst ==
  /\ \A uid \in UserIds :
       LET h == users[uid].passwordHistory
       IN /\ Len(h) <= 5
          /\ \A i, j \in 1..Len(h) : i < j => h[i].changedAt >= h[j].changedAt
  /\ \A w \in Workers :
       (ChangeDone(w) /\ proc[w].res.kind = "Success")
       => LET h0 == proc[w].before.history
              h == users[proc[w].uid].passwordHistory
          IN /\ Len(h) >= 1
             /\ Compare(proc[w].newPassword, h[1].password)
             /\ h[1].password = users[proc[w].uid].password
             /\ IF Len(h0) < 5
                THEN Tail(h) = h0
                ELSE Tail(h) = SubSeq(h0, 1, 4)

\* the list was full and its oldest entry went
C6_Witness ==
  \E w \in Workers :
    /\ ChangeDone(w)
    /\ proc[w].res.kind = "Success"
    /\ Len(proc[w].before.history) = 5
    /\ Len(users[proc[w].uid].passwordHistory) = 5
    /\ ~InHistory(proc[w].before.pwUsed[5], users[proc[w].uid].passwordHistory)

-----------------------------------------------------------------------------
RefreshDone(w) ==
  /\ proc[w].pc = "idle"
  /\ proc[w].op = "refresh"

\* the token verified against the refresh secret when the request arrived,
\* and its account existed
VerifiedBefore(w) ==
  /\ proc[w].token.secret = "JWT_REFRESH_SECRET"
  /\ proc[w].before.at < proc[w].token.exp
  /\ proc[w].token.userId \in 1..proc[w].before.users

SessionBefore(w) == \E s \in proc[w].before.sessions : s.token = proc[w].token

(* C7: refresh with a token that does not verify against the refresh        *)
(* secret (tampered, expired, signed with the access secret) or whose       *)
(* account does not exist fails with InvalidToken (401) and leaves the      *)
(* sessions and the activity log unchanged.                                 *)
C7_BadTokenInvalid ==
  \A w \in Workers :
    (RefreshDone(w) /\ ~VerifiedBefore(w))
    => /\ proc[w].res = Err("InvalidToken", 401)
       /\ sessions = proc[w].before.sessions
       /\ Len(activities) = proc[w].before.activities

\* an issued token, presented once expired, its session row still there
C7_Witness ==
  \E w \in Workers :
    /\ RefreshDone(w)
    /\ proc[w].token \in issued
    /\ proc[w].before.at >= proc[w].token.exp
    /\ \E s \in sessions : s.token = proc[w].token
    /\ proc[w].res.kind = "InvalidToken"

(* C8: a refresh presenting a verified token whose session row exists       *)
(* succeeds (200), deletes exactly that row, creates exactly one row, for   *)
(* the refresh token it returns, appends one TOKEN_REFRESHED activity and   *)
(* touches no other session.                                                *)
C8_RefreshRotatesOneSession ==
  \A w \in Workers :
    (RefreshDone(w) /\ VerifiedBefore(w) /\ SessionBefore(w))
    => LET old == {s \in proc[w].before.sessions : s.token = proc[w].token}
           new == {s \in sessions : s.token = proc[w].res.refreshToken}
       IN /\ proc[w].res.kind = "Success"
          /\ proc[w].res.status = 200
          /\ Cardinality(new) = 1
          /\ new \cap proc[w].before.sessions = {}
          /\ \A s \in new : s.userId = proc[w].token.userId
          /\ sessions = (proc[w].before.sessions \ old) \cup new
          /\ Len(activities) = proc[w].before.activities + 1
          /\ activities[Len(activities)] =
                [userId |-> proc[w].token.userId, action |-> "TOKEN_REFRESHED"]

\* another session of the account was there, and still is
C8_Witness ==
  \E w \in Workers :
    /\ RefreshDone(w)
    /\ VerifiedBefore(w)
    /\ SessionBefore(w)
    /\ Cardinality(proc[w].before.sessions) = 2
    /\ Cardinality(sessions) = 2
    /\ proc[w].res.kind = "Success"

(* C9: once a refresh presenting T has succeeded, T has no session row and  *)
(* every later refresh presenting T fails, signs no token and creates no    *)
(* session.                                                                 *)
C9_RotatedTokenIsDead ==
  /\ \A tok \in rotated : \A s \in sessions : s.token # tok
  /\ \A w \in Workers :
       (RefreshDone(w) /\ proc[w].before.rotated)
       => /\ proc[w].res = Err("InvalidToken", 401)
          /\ issued = proc[w].before.issued
          /\ sessions = proc[w].before.sessions

\* T still verifies: the reuse fails for want of a session row
C9_Witness ==
  \E w \in Workers :
    /\ RefreshDone(w)
    /\ proc[w].before.rotated
    /\ VerifiedBefore(w)
    /\ proc[w].res.kind = "InvalidToken"

(* C10 as stated: when no session row matches the presented token, a        *)
(* refresh with a verified token of an existing account still succeeds,     *)
(* returning a new token pair and creating a new session.                   *)
C10_InvalidateBestEffort ==
  \A w \in Workers :
    (RefreshDone(w) /\ VerifiedBefore(w) /\ ~SessionBefore(w))
    => /\ proc[w].res.kind = "Success"
       /\ \E s \in sessions : s.token = proc[w].res.refreshToken

(* C10 amended: when no session row matches the presented token, a refresh  *)
(* with a verified token of an existing account fails with InvalidToken     *)
(* (401), signs no token and creates no session.                            *)
C10_NoSessionNoRefresh ==
  \A w \in Workers :
    (RefreshDone(w) /\ VerifiedBefore(w) /\ ~SessionBefore(w))
    => /\ proc[w].res = Err("InvalidToken", 401)
       /\ issued = proc[w].before.issued
       /\ sessions = proc[w].before.sessions

\* the row went with a logout, not with a rotation
C10_Witness ==
  \E w \in Workers :
    /\ RefreshDone(w)
    /\ VerifiedBefore(w)
    /\ ~SessionBefore(w)
    /\ ~proc[w].before.rotated
    /\ proc[w].res.kind = "InvalidToken"

-----------------------------------------------------------------------------
LogoutDone(w) ==
  /\ proc[w].pc = "idle"
  /\ proc[w].op = "logout"

(* C11: logout never surfaces an error; it deletes exactly the session of   *)
(* the token when there is one, and otherwise (a second logout of the same  *)
(* token included) returns normally and leaves the sessions unchanged.      *)
C11_LogoutIdempotent ==
  \A w \in Workers :
    LogoutDone(w)
    => /\ proc[w].res.kind = "Success"
       /\ sessions = {s \in proc[w].before.sessions : s.token # proc[w].token}
       /\ Cardinality(proc[w].before.sessions \ sessions) <= 1
       /\ ~SessionBefore(w) => sessions = proc[w].before.sessions

\* a logout of an issued token that was never rotated and has no row: the
\* row went with an earlier logout of the same token
C11_Witness ==
  \E w \in Workers :
    /\ LogoutDone(w)
    /\ proc[w].token \in proc[w].before.issued
    /\ ~proc[w].before.rotated
    /\ ~SessionBefore(w)
    /\ proc[w].before.sessions # {}
    /\ proc[w].res.kind = "Success"

-----------------------------------------------------------------------------
\* a request that was answered with a token pair
TokenGranted(w) ==
  /\ proc[w].pc = "idle"
  /\ proc[w].op \in {"register", "login", "refresh"}
  /\ proc[w].res.kind = "Success"

(* C12: no two session rows hold the same token; a createSession whose      *)
(* token is already in the store replaces the row, it does not fail: one    *)
(* row with the token remains, and it is the one the latest caller made.    *)
C12_TokenUniqueReplaceOnConflict ==
  /\ \A s1, s2 \in sessions : s1.token = s2.token => s1 = s2
  /\ \A w \in Workers :
       /\ proc[w].pc = "idle" => proc[w].res.kind # "StoreError"
       /\ TokenGranted(w)
          => \E s \in sessions :
               /\ s.token = proc[w].res.refreshToken
               /\ s.userId = proc[w].uid
               /\ s.createdAt >= proc[w].before.at
               /\ s.expiresAt >= proc[w].before.at + 24 * 60 * 60 * 1000

\* a login was given the token of a row in the store, and the row there now
\* is a new one
C12_Witness ==
  \E w \in Workers :
    /\ TokenGranted(w)
    /\ proc[w].op = "login"
    /\ \E s \in proc[w].before.sessions : s.token = proc[w].res.refreshToken
    /\ \A s \in sessions :
         s.token = proc[w].res.refreshToken => s \notin proc[w].before.sessions

(* C18: every refresh token issued by register, login or refresh differs    *)
(* from every refresh token issued before it, the one presented to refresh  *)
(* included.                                                                *)
C18_IssuedTokensDistinct ==
  \A w \in Workers :
    TokenGranted(w) => proc[w].res.refreshToken \notin proc[w].before.issued

-----------------------------------------------------------------------------
\* a login for an email that had no account
UnknownEmailLogin(w) ==
  /\ LoginDone(w)
  /\ proc[w].uid = NoUser

\* a login with a wrong password that isAccountLocked let through
WrongPasswordLogin(w) ==
  /\ LoginDone(w)
  /\ proc[w].uid # NoUser
  /\ ~RightPassword(w)
  /\ \/ proc[w].lockStart = NoTime
     \/ proc[w].checkedAt >= proc[w].lockStart + 15 * 60 * 1000

(* C13: a login for an email without account and a login with a wrong       *)
(* password for an account that is not locked get the same answer: the same *)
(* error (kind and message) and status, InvalidCredential 401.              *)
C13_NoUserEnumeration ==
  \A w1, w2 \in Workers :
    (UnknownEmailLogin(w1) /\ WrongPasswordLogin(w2))
    => /\ proc[w1].res = proc[w2].res
       /\ proc[w1].res.kind = "InvalidCredential"
       /\ proc[w1].res.status = 401

\* both answers are there to compare
C13_Witness ==
  \E w1, w2 \in Workers :
    /\ UnknownEmailLogin(w1)
    /\ WrongPasswordLogin(w2)
    /\ proc[w1].res.kind = "InvalidCredential"
    /\ proc[w2].res.kind = "InvalidCredential"

-----------------------------------------------------------------------------
\* the rows that refer to an account
OwnAttempts(uid) ==
  {i \in 1..Len(failedAttempts) : failedAttempts[i].userId = uid}

\* the rows recorded for an email while it had no account
OrphanAttempts(email) ==
  {i \in 1..Len(failedAttempts) :
     failedAttempts[i].email = email /\ failedAttempts[i].userId = NoUser}

(* C14: every failed login appends exactly one FailedLoginAttempt row; the  *)
(* row of an unknown email refers to no account, and a lock is only ever    *)
(* set on 5 rows that refer to the account itself, of which none is a row   *)
(* recorded for its email before it was registered.                         *)
C14_FailedAttemptRecorded ==
  /\ \A w \in Workers :
       (LoginDone(w) /\ proc[w].res.kind = "InvalidCredential")
       => /\ Len(failedAttempts) = proc[w].before.attempts + 1
          /\ failedAttempts[Len(failedAttempts)].email = proc[w].email
          /\ failedAttempts[Len(failedAttempts)].userId = proc[w].uid
  /\ \A uid \in UserIds :
       users[uid].accountStatus = "LOCKED"
       => Cardinality(OwnAttempts(uid)) >= 5

\* five rows for the email in the window, one of them from before the
\* account existed: the fourth wrong password has not locked the account
C14_Witness ==
  \E w \in Workers :
    /\ LoginDone(w)
    /\ proc[w].uid # NoUser
    /\ proc[w].res.kind = "InvalidCredential"
    /\ OrphanAttempts(proc[w].email) # {}
    /\ Cardinality(OwnAttempts(proc[w].uid)) = 4
    /\ Cardinality({i \in 1..Len(failedAttempts) :
          /\ failedAttempts[i].email = proc[w].email
          /\ failedAttempts[i].createdAt >= now - 15 * 60 * 1000}) >= 5
    /\ users[proc[w].uid].accountStatus = "ACTIVE"

-----------------------------------------------------------------------------
(* C15: an account whose status is LOCKED has a lock-start timestamp        *)
(* (deactivatedAt is not null), whatever the interleaving of logins with    *)
(* updateAccountStatus and toggleUserActiveStatus.                          *)
C15_LockedHasLockStart ==
  \A uid \in UserIds :
    users[uid].accountStatus = "LOCKED" => users[uid].deactivatedAt # NoTime

\* a lock stamped while a toggle that read the row before it is about to
\* write, on an account an administrator had deactivated
C15_Witness ==
  \E uid \in UserIds :
    /\ users[uid].accountStatus = "LOCKED"
    /\ users[uid].deactivatedAt # NoTime
    /\ ~users[uid].isActive
    /\ \E w \in Workers :
         /\ proc[w].pc = "g_update"
         /\ proc[w].uid = uid
         /\ proc[w].seenAt = NoTime

-----------------------------------------------------------------------------
\* what a register has written so far: companies, accounts, session rows
\* and activities more than it found
Written(w) ==
  <<Len(companies) - proc[w].before.companies,
    Len(users) - proc[w].before.users,
    Cardinality(sessions \ proc[w].before.sessions),
    Len(activities) - proc[w].before.activities>>

\* the account a register made is bound to the default role and to the
\* company the same register made
AccountBound(w) ==
  /\ proc[w].uid = Len(users)
  /\ users[proc[w].uid].email = proc[w].email
  /\ users[proc[w].uid].roleId \in roles
  /\ users[proc[w].uid].companyId = Len(companies)

(* C16: a register writes in this order: company, account (bound to the    *)
(* default role and that company), session for the refresh token it        *)
(* returns, USER_REGISTERED activity; it answers 201 with the tokens only  *)
(* when the four records exist.                                            *)
C16_RegisterWriteOrder ==
  \A w \in Workers :
    proc[w].op = "register"
    => /\ proc[w].pc \in {"r_role", "r_company"} => Written(w) = <<0, 0, 0, 0>>
       /\ proc[w].pc = "r_user" => Written(w) = <<1, 0, 0, 0>>
       /\ proc[w].pc \in {"s_delete", "s_create"}
          => Written(w) = <<1, 1, 0, 0>> /\ AccountBound(w)
       /\ proc[w].pc = "s_activity"
          => /\ Written(w) = <<1, 1, 1, 0>>
             /\ AccountBound(w)
             /\ \E s \in sessions :
                  s.token = proc[w].newTok /\ s.userId = proc[w].uid
       /\ (proc[w].pc = "idle" /\ proc[w].res.kind = "Success")
          => /\ proc[w].res.status = 201
             /\ proc[w].res.refreshToken # NoToken
             /\ Written(w) = <<1, 1, 1, 1>>
             /\ AccountBound(w)
             /\ \E s \in sessions :
                  /\ s.token = proc[w].res.refreshToken
                  /\ s.userId = proc[w].uid
             /\ activities[Len(activities)] =
                  [userId |-> proc[w].uid, action |-> "USER_REGISTERED"]

\* a second account has been registered and answered
C16_Witness ==
  \E w \in Workers :
    /\ RegisterDone(w)
    /\ proc[w].res.kind = "Success"
    /\ proc[w].res.status = 201
    /\ Written(w) = <<1, 1, 1, 1>>
    /\ proc[w].uid = 2

-----------------------------------------------------------------------------
\* a login with the account's password that isAccountLocked let through
RightPasswordLogin(w) ==
  /\ LoginDone(w)
  /\ RightPassword(w)
  /\ \/ proc[w].lockStart = NoTime
     \/ proc[w].checkedAt >= proc[w].lockStart + 15 * 60 * 1000

(* C17: a login with the right password for an account that is not locked  *)
(* returns a token pair (200), sets lastLogin, creates exactly one session  *)
(* row for the refresh token returned, expiring 24 hours after the time of  *)
(* the call, appends one USER_LOGGED_IN activity and leaves the sessions    *)
(* that were there in place.                                                *)
C17_LoginCreatesOneSession ==
  \A w \in Workers :
    RightPasswordLogin(w)
    => LET new == {s \in sessions : s.token = proc[w].res.refreshToken}
       IN /\ proc[w].res.kind = "Success"
          /\ proc[w].res.status = 200
          /\ proc[w].res.refreshToken # NoToken
          /\ users[proc[w].uid].lastLogin >= proc[w].before.at
          /\ users[proc[w].uid].lastLogin <= now
          /\ Cardinality(new) = 1
          /\ \A s \in new :
               /\ s.userId = proc[w].uid
               /\ s.expiresAt >= proc[w].before.at + 24 * 60 * 60 * 1000
               /\ s.expiresAt <= s.createdAt + 24 * 60 * 60 * 1000
          /\ new \cap proc[w].before.sessions = {}
          /\ sessions = proc[w].before.sessions \cup new
          /\ Len(activities) = proc[w].before.activities + 1
          /\ activities[Len(activities)] =
                [userId |-> proc[w].uid, action |-> "USER_LOGGED_IN"]

\* the account had a session, which is still there beside the new one; no
\* time passed during the call, so the expiry is now + 24 hours
C17_Witness ==
  \E w \in Workers :
    /\ RightPasswordLogin(w)
    /\ proc[w].res.kind = "Success"
    /\ proc[w].before.sessions # {}
    /\ proc[w].before.sessions \subseteq sessions
    /\ users[proc[w].uid].lastLogin = now
    /\ \E s \in sessions :
         /\ s.token = proc[w].res.refreshToken
         /\ s.expiresAt = now + 24 * 60 * 60 * 1000

-----------------------------------------------------------------------------
\* the presented token's session row had expired when the request arrived
ExpiredBefore(w) ==
  \E s \in proc[w].before.sessions :
    s.token = proc[w].token /\ s.expiresAt < proc[w].before.at

(* C19: a session whose expiry has passed is never used again: a refresh    *)
(* that presents its token does not succeed, swept or not, and the listing  *)
(* of an account's active sessions never returns it.                        *)
C19_ExpiredSessionUnused ==
  \A w \in Workers :
    /\ (RefreshDone(w) /\ ExpiredBefore(w)) => proc[w].res.kind # "Success"
    /\ (proc[w].pc = "idle" /\ proc[w].op = "getUserSessions")
       => \A s \in proc[w].rows : s.expiresAt > proc[w].before.at

-----------------------------------------------------------------------------
\* the failed attempts of an account in the lockout window that trails `at`
InWindow(attempts, uid, at) ==
  Cardinality({i \in 1..Len(attempts) :
                 /\ attempts[i].userId = uid
                 /\ attempts[i].createdAt >= at - 15 * 60 * 1000})

\* the rows of a list that are not older than 24 hours at `at`
NotOlderThanADay(attempts, at) ==
  LET Recent(a) == a.createdAt >= at - 24 * 60 * 60 * 1000
  IN SelectSeq(attempts, Recent)

(* C20: the sweep deletes exactly the sessions whose expiry is before now   *)
(* and the failed attempts older than 24 hours, and nothing else; no other  *)
(* step removes or rewrites a failed attempt; so the sweep leaves every     *)
(* account's number of failures in the trailing lockout window as it was.   *)
C20_SweepFrame ==
  [][/\ \A w \in Workers :
       /\ (proc[w].pc = "idle" /\ proc'[w].pc = "c_attempts")
          => /\ sessions' = {s \in sessions : s.expiresAt >= now}
             /\ failedAttempts' = failedAttempts
             /\ users' = users
       /\ (proc[w].pc = "c_attempts" /\ proc'[w].pc = "idle")
          => /\ failedAttempts' = NotOlderThanADay(failedAttempts, proc[w].at)
             /\ sessions' = sessions
             /\ users' = users
             /\ \A uid \in UserIds :
                  InWindow(failedAttempts', uid, now)
                    = InWindow(failedAttempts, uid, now)
     /\ (\A w \in Workers : proc[w].pc # "c_attempts")
        => /\ Len(failedAttempts') >= Len(failedAttempts)
           /\ SubSeq(failedAttempts', 1, Len(failedAttempts)) = failedAttempts
    ]_vars

\* a sweep has removed a session and a failed attempt and has left a newer
\* session and a newer failed attempt
C20_Witness ==
  \E w \in Workers :
    /\ proc[w].pc = "idle"
    /\ proc[w].op = "cleanupOldRecords"
    /\ proc[w].before.sessions \ sessions # {}
    /\ sessions # {}
    /\ Len(failedAttempts) < proc[w].before.attempts
    /\ Len(failedAttempts) > 0

-----------------------------------------------------------------------------
\* a changePassword that has been answered
ChangeAnswered(w) ==
  /\ proc[w].pc = "idle"
  /\ proc[w].op = "changePassword"

\* the account's password columns are what the request found
PasswordAsBefore(w) ==
  /\ users[proc[w].uid].password = proc[w].before.hash
  /\ users[proc[w].uid].passwordHistory = proc[w].before.history
  /\ users[proc[w].uid].lastPasswordChange = proc[w].before.changed
  /\ pwUsed[proc[w].uid] = proc[w].before.pwUsed

(* C21: changePassword fails with NotFound when the account is missing,     *)
(* with InvalidCredential when currentPassword does not match the stored    *)
(* hash, and with PasswordReused when newPassword matches an entry of the   *)
(* history; in each failing case the account's hash, history and            *)
(* lastPasswordChange are what they were.                                   *)
C21_ChangePasswordFailures ==
  \A w \in Workers :
    ChangeAnswered(w)
    => LET b == proc[w].before
       IN /\ proc[w].uid > b.users => proc[w].res.kind = "NotFound"
          /\ (proc[w].uid <= b.users /\ ~Compare(proc[w].password, b.hash))
             => proc[w].res.kind = "InvalidCredential"
          /\ (/\ proc[w].uid <= b.users
              /\ Compare(proc[w].password, b.hash)
              /\ \E i \in 1..Len(b.history) :
                    Compare(proc[w].newPassword, b.history[i].password))
             => proc[w].res.kind = "PasswordReused"
          /\ (proc[w].res.kind # "Success" /\ proc[w].uid <= b.users)
             => PasswordAsBefore(w)
          /\ proc[w].res.kind # "Success" => Len(users) = b.users

\* the new password is the third entry of the history, and the account has
\* changed its password before
C21_Witness ==
  \E w \in Workers :
    /\ ChangeAnswered(w)
    /\ proc[w].res.kind = "PasswordReused"
    /\ Len(proc[w].before.history) >= 3
    /\ Compare(proc[w].newPassword, proc[w].before.history[3].password)
    /\ proc[w].before.changed # NoTime
    /\ PasswordAsBefore(w)

-----------------------------------------------------------------------------
\* a login whose lock check found the account locked, inside the window
LockedLogin(w) ==
  /\ LoginDone(w)
  /\ proc[w].uid # NoUser
  /\ proc[w].lockStart # NoTime
  /\ proc[w].checkedAt < proc[w].lockStart + 15 * 60 * 1000

(* C22: a login for a locked account inside the lockout window is answered  *)
(* AccountLocked whatever its password, appends no failed-attempt row and   *)
(* leaves the lock-start where it was, so that attempts made one after the  *)
(* other while locked never extend the lockout.                             *)
C22_LockedLoginLeavesLock ==
  \A w \in Workers :
    LockedLogin(w)
    => /\ proc[w].res = Err("AccountLocked", 401)
       /\ Len(failedAttempts) = proc[w].before.attempts
       /\ users[proc[w].uid].accountStatus = "LOCKED"
       /\ users[proc[w].uid].deactivatedAt = proc[w].lockStart
       /\ sessions = proc[w].before.sessions
       /\ Len(activities) = proc[w].before.activities

\* a wrong password in the last millisecond of the lock, the sixth attempt
\* on the account
C22_Witness ==
  \E w \in Workers :
    /\ LockedLogin(w)
    /\ ~RightPassword(w)
    /\ proc[w].checkedAt = proc[w].lockStart + 15 * 60 * 1000 - 1
    /\ proc[w].res.kind = "AccountLocked"
    /\ Cardinality(OwnAttempts(proc[w].uid)) = 5

-----------------------------------------------------------------------------
\* the wrong passwords compared against the account's hash (each leaves one
\* row that refers to the account) within less than `window` of the latest
ComparedInWindow(uid, window) ==
  LET mine == {i \in 1..Len(failedAttempts) : failedAttempts[i].userId = uid}
  IN Cardinality({i \in mine : \A j \in mine :
                    failedAttempts[i].createdAt > failedAttempts[j].createdAt - window})

(* C23: under any interleaving of concurrent logins for one account, at     *)
(* most 5 wrong passwords are compared against its hash inside one          *)
(* 15-minute window: once 5 failures are recorded every concurrent or later *)
(* login is answered AccountLocked before its password is compared.         *)
C23_AtMostFiveCompared ==
  \A uid \in UserIds : ComparedInWindow(uid, 15 * 60 * 1000) <= 5

-----------------------------------------------------------------------------
\* the accounts bound to a company
BoundTo(c) == {uid \in UserIds : users[uid].companyId = c}

(* C24: of two interleaved register calls that share an email or a          *)
(* username exactly one succeeds and the other fails with Conflict, leaving *)
(* nothing behind: once both are answered, every company has exactly one    *)
(* account bound to it.                                                     *)
C24_RegisterRaceClean ==
  /\ \A w \in Workers :
       RegisterDone(w) => proc[w].res.kind \in {"Success", "Conflict"}
  /\ Quiet
     => \A c \in 1..Len(companies) : Cardinality(BoundTo(c)) = 1

-----------------------------------------------------------------------------
\* a refresh whose delete of the presented token's row went through
Won(w) ==
  /\ proc[w].op = "refresh"
  /\ \/ proc[w].pc \in {"s_delete", "s_create", "s_activity"}
     \/ proc[w].pc = "idle" /\ proc[w].res.kind = "Success"

(* C25: of two interleaved refresh calls that present the same token at     *)
(* most one succeeds: the session row is deleted by exactly one of them,    *)
(* and the other fails with InvalidToken, having signed no token and        *)
(* created no session.                                                      *)
C25_OneRefreshWins ==
  /\ [](\A w1, w2 \in Workers :
          (w1 # w2 /\ proc[w1].token = proc[w2].token)
          => ~(Won(w1) /\ Won(w2)))
  /\ [][\A w \in Workers :
          (/\ proc[w].op = "refresh"
           /\ proc[w].pc # "idle"
           /\ proc'[w].pc = "idle"
           /\ proc'[w].res.kind # "Success")
          => /\ proc'[w].res = Err("InvalidToken", 401)
             /\ proc[w].newTok = NoToken
             /\ sessions' = sessions
             /\ issued' = issued
             /\ activities' = activities]_vars

\* both requests arrived while the row was there; one has rotated the token
\* and the other has been turned away
C25_Witness ==
  \E w1, w2 \in Workers :
    /\ w1 # w2
    /\ RefreshDone(w1) /\ RefreshDone(w2)
    /\ proc[w1].token = proc[w2].token
    /\ SessionBefore(w1) /\ SessionBefore(w2)
    /\ proc[w1].res.kind = "Success"
    /\ proc[w2].res = Err("InvalidToken", 401)
    /\ Cardinality(issued) = 2

-----------------------------------------------------------------------------
\* the administrator's latest request set the account suspended or
\* deactivated, and has been answered
AdminDisabled(w) ==
  /\ proc[w].pc = "idle"
  /\ proc[w].op = "updateAccountStatus"
  /\ proc[w].status \in {"suspended", "deactivated"}
  /\ proc[w].res.kind = "Success"

(* C26: an account that an administrator has suspended or deactivated never *)
(* becomes active through the login flow: the recording of failed logins    *)
(* and the later auto-unlock do not put an active status in the place of    *)
(* the administrator's.                                                     *)
C26_DisabledStaysDisabled ==
  \A w \in Admins :
    AdminDisabled(w)
    => users[proc[w].uid].accountStatus \notin {"ACTIVE", "active"}

-----------------------------------------------------------------------------
\* a login that has verified the password and goes on to the tokens
LoginProceeds(w) ==
  /\ proc[w].op = "login"
  /\ proc[w].pc \in {"l_last", "s_delete", "s_create", "s_activity"}

(* C27: login issues tokens and creates a session only for an account whose *)
(* status is active: with no other request in flight, a login with the      *)
(* right password for a suspended or deactivated account does not get past *)
(* the password check.                                                      *)
C27_LoginOnlyWhenActive ==
  \A w \in Workers :
    LoginProceeds(w)
    => /\ users[proc[w].uid].accountStatus \notin {"suspended", "deactivated"}
       /\ users[proc[w].uid].isActive

-----------------------------------------------------------------------------
\* a request that has signed its tokens and is creating the session
Issuing(w) == proc[w].pc \in {"s_delete", "s_create", "s_activity"}

(* C28: while an account is locked (now before lock-start + 15 minutes) no  *)
(* operation issues tokens or creates a session for it; a refresh that      *)
(* presents one of its live refresh tokens does not succeed.                *)
C28_NoTokensWhileLocked ==
  \A w \in Workers :
    Issuing(w)
    => ~(/\ users[proc[w].uid].accountStatus = "LOCKED"
         /\ users[proc[w].uid].deactivatedAt # NoTime
         /\ now < users[proc[w].uid].deactivatedAt + 15 * 60 * 1000)

-----------------------------------------------------------------------------
\* a login with a wrong password for an account that exists
WrongGuess(w) ==
  /\ LoginDone(w)
  /\ proc[w].uid # NoUser
  /\ ~RightPassword(w)

(* C29 as stated: for any run of logins that all carry wrong passwords the  *)
(* responses are the same whether the email has an account or has none.     *)
C29_SameResponses ==
  \A w1, w2 \in Workers :
    (WrongGuess(w1) /\ UnknownEmailLogin(w2)) => proc[w1].res = proc[w2].res

(* C29 amended: a wrong password gets the same response for an email with   *)
(* an account and for one without until the account is locked, which takes  *)
(* 5 recorded failures; an attempt made while the lock lasts is answered    *)
(* AccountLocked for the account, and InvalidCredential as before for the   *)
(* email without one.                                                       *)
C29_SameUntilLocked ==
  \A w1, w2 \in Workers :
    (WrongGuess(w1) /\ UnknownEmailLogin(w2))
    => /\ proc[w2].res = Err("InvalidCredential", 401)
       /\ IF LockedLogin(w1)
          THEN /\ proc[w1].res = Err("AccountLocked", 401)
               /\ Cardinality(OwnAttempts(proc[w1].uid)) >= 5
          ELSE proc[w1].res = proc[w2].res

\* the sixth wrong password in a row, for both emails: the answers differ
C29_Witness ==
  \E w1, w2 \in Workers :
    /\ WrongGuess(w1)
    /\ UnknownEmailLogin(w2)
    /\ LockedLogin(w1)
    /\ Cardinality(OwnAttempts(proc[w1].uid)) = 5
    /\ Cardinality(OrphanAttempts(proc[w2].email)) = 6
    /\ proc[w1].res.kind = "AccountLocked"
    /\ proc[w2].res.kind = "InvalidCredential"

-----------------------------------------------------------------------------
\* a login with a wrong password whose lock check found an expired lock and
\* cleared it
UnlockedThenFailed(w) ==
  /\ WrongPasswordLogin(w)
  /\ proc[w].lockStart # NoTime

\* the failures of the account recorded since the request arrived
NewFailures(w) ==
  Cardinality({i \in OwnAttempts(proc[w].uid) : i > proc[w].before.attempts})

(* C30: after an auto-unlock the failures behind the expired lock no longer *)
(* count: the account is not locked again before 5 new failed logins have   *)
(* been recorded after the unlock, also when the first of them comes        *)
(* exactly at lock-start + 15 minutes.                                      *)
C30_UnlockForgetsOldFailures ==
  \A w \in Workers :
    (UnlockedThenFailed(w) /\ users[proc[w].uid].accountStatus = "LOCKED")
    => NewFailures(w) >= 5

====
